---------------------------- MODULE Spec2Model ----------------------------
(***************************************************************************)
(* HashForge Lab (src/app.js): the hash step catalog STEPS, the pipeline   *)
(* evaluator runHash and the avalanche comparison runAvalanche.            *)
(*                                                                         *)
(* Numbers.  A JavaScript integer Number n is the pair <<hi, lo>> with     *)
(* n = hi * 65536 + lo and 0 <= lo < 65536.  An unsigned 32-bit value has  *)
(* 0 <= hi < 65536, a signed one (the result of ^, |, <<, Math.imul) has   *)
(* -32768 <= hi < 32768.  The pair keeps every 32-bit value inside the     *)
(* range of the model checker's integers.                                  *)
(*                                                                         *)
(* Strings.  A JavaScript string is the sequence of its UTF-16 code units. *)
(***************************************************************************)
EXTENDS Integers, Sequences, FiniteSets, TLC

\* ------------------------------------------------------------ numbers

B16 == 2^16

\* TRUE of every value.  Evaluating it computes v: a loop tests it so that each
\* iteration starts from computed values, as the code's loops do.
Computed(v) == v = v

Hi(n) == n[1]
Lo(n) == n[2]

\* The pair of a small non-negative integer.
Num(k) == <<k \div B16, k % B16>>

\* ToUint32 and ToInt32 of ECMAScript, on the 32 low bits.
ToUint32(n) == <<Hi(n) % B16, Lo(n)>>

ToInt32(n) ==
  LET h == Hi(n) % B16
  IN  <<IF h >= 32768 THEN h - B16 ELSE h, Lo(n)>>

IsUint32(n) ==
  /\ n \in Seq(Int) /\ Len(n) = 2
  /\ Hi(n) >= 0 /\ Hi(n) < B16
  /\ Lo(n) >= 0 /\ Lo(n) < B16

IsNegative(n) == Hi(n) < 0

\* -n of a negative pair (its absolute value).
Negate(n) ==
  IF Lo(n) = 0 THEN <<-Hi(n), 0>> ELSE <<-Hi(n) - 1, B16 - Lo(n)>>

RECURSIVE BitXor(_, _, _)
\* x XOR y on the k low bits of two non-negative integers.
BitXor(x, y, k) ==
  IF k = 0 THEN 0
  ELSE (((x % 2) + (y % 2)) % 2) + (2 * BitXor(x \div 2, y \div 2, k - 1))

RECURSIVE BitOr(_, _, _)
BitOr(x, y, k) ==
  IF k = 0 THEN 0
  ELSE (IF (x % 2) + (y % 2) > 0 THEN 1 ELSE 0) + (2 * BitOr(x \div 2, y \div 2, k - 1))

\* a ^ b : both operands through ToInt32, a signed 32-bit result.
Xor(a, b) ==
  ToInt32(<<BitXor(Hi(ToUint32(a)), Hi(ToUint32(b)), 16), BitXor(Lo(a), Lo(b), 16)>>)

\* a | b
Or(a, b) ==
  ToInt32(<<BitOr(Hi(ToUint32(a)), Hi(ToUint32(b)), 16), BitOr(Lo(a), Lo(b), 16)>>)

RECURSIVE Pow2(_)
Pow2(k) == IF k = 0 THEN 1 ELSE 2 * Pow2(k - 1)

\* a >>> k for 0 <= k < 32: the operand through ToUint32, an unsigned result.
Ushr(a, k) ==
  LET u == ToUint32(a)
  IN  IF k >= 16
      THEN <<0, Hi(u) \div Pow2(k - 16)>>
      ELSE <<Hi(u) \div Pow2(k),
             ((Hi(u) % Pow2(k)) * Pow2(16 - k)) + (Lo(u) \div Pow2(k))>>

\* a << k for 0 <= k < 16: a signed 32-bit result.
Shl(a, k) ==
  LET u == ToUint32(a)
  IN  ToInt32(<<((Hi(u) % Pow2(16 - k)) * Pow2(k)) + (Lo(u) \div Pow2(16 - k)),
                (Lo(u) % Pow2(16 - k)) * Pow2(k)>>)

\* The exact product of two 16-bit values, as a pair.
Mul16(x, y) ==
  LET p0 == x * (y % 256)
      p1 == x * (y \div 256)
      lo == ((p1 % 256) * 256) + p0
  IN  <<(p1 \div 256) + (lo \div B16), lo % B16>>

\* The 32 low bits of the exact product of two unsigned 32-bit values.
MulLow32(a, b) ==
  LET ll == Mul16(Lo(a), Lo(b))
      hl == Mul16(Hi(a), Lo(b))
      lh == Mul16(Lo(a), Hi(b))
  IN  <<(Hi(ll) + Lo(hl) + Lo(lh)) % B16, Lo(ll)>>

\* Math.imul(a, b): a signed 32-bit result.
Imul(a, b) == ToInt32(MulLow32(ToUint32(a), ToUint32(b)))

\* (a + b) >>> 0 for unsigned a and b (the double sum is exact).
AddU32(a, b) ==
  LET lo == Lo(a) + Lo(b)
  IN  <<(Hi(a) + Hi(b) + (lo \div B16)) % B16, lo % B16>>

\* ------------------------------------------------------------ BigInt

\* (a + b) % m for 0 <= a, b < m, without leaving the integer range.
AddMod(a, b, m) == IF a >= m - b THEN a - (m - b) ELSE a + b

RECURSIVE MulMod(_, _, _)
\* (a * b) % m for 0 <= a, b < m: a is doubled once per bit of b.
MulMod(a, b, m) ==
  IF b = 0 THEN 0
  ELSE LET a2 == AddMod(a, a, m)
       IN  IF Computed(a2)
           THEN LET t == MulMod(a2, b \div 2, m)
                IN  IF b % 2 = 1 THEN AddMod(t, a, m) ELSE t
           ELSE 0

\* M of modular_exp: 2^31 - 1.
M31 == 2147483647

\* BigInt(u) % 2147483647 for an unsigned 32-bit pair u (2^31 = 1 mod 2^31 - 1).
BigMod31(u) ==
  LET rest == ((Hi(u) % 32768) * B16) + Lo(u)
      top  == Hi(u) \div 32768
  IN  AddMod(rest % M31, top, M31)

\* ------------------------------------------------------------ strings

IsHighSurrogate(u) == u >= 55296 /\ u <= 56319
IsLowSurrogate(u)  == u >= 56320 /\ u <= 57343

RECURSIVE Chars(_)
\* [...str] and `for (const c of str)`: the string's code points, each the
\* string of its one or two code units.
Chars(str) ==
  IF str = <<>> THEN <<>>
  ELSE IF Len(str) >= 2 /\ IsHighSurrogate(str[1]) /\ IsLowSurrogate(str[2])
       THEN <<SubSeq(str, 1, 2)>> \o Chars(SubSeq(str, 3, Len(str)))
       ELSE <<SubSeq(str, 1, 1)>> \o Chars(Tail(str))

\* c.charCodeAt(0): the first code unit of c.
charCodeAt0(c) == c[1]

RECURSIVE Join(_)
\* arr.join('')
Join(arr) == IF arr = <<>> THEN <<>> ELSE Head(arr) \o Join(Tail(arr))

\* The code unit of a hexadecimal digit: '0'..'9' are 48..57, 'a'..'f' 97..102.
HexChar(d) == IF d < 10 THEN 48 + d ELSE 87 + d

\* '-' is code unit 45, '0' is 48.
MinusChar == <<45>>
ZeroChar == 48

RECURSIVE HexOf(_)
\* The hexadecimal digits of a non-negative integer, no leading zero.
HexOf(k) ==
  IF k < 16 THEN <<HexChar(k)>> ELSE HexOf(k \div 16) \o <<HexChar(k % 16)>>

RECURSIVE padStart(_, _, _)
\* s.padStart(n, ch)
padStart(s, n, ch) == IF Len(s) >= n THEN s ELSE padStart(<<ch>> \o s, n, ch)

\* The hexadecimal digits of a non-negative pair.
HexOfPair(n) ==
  IF Hi(n) = 0 THEN HexOf(Lo(n))
  ELSE HexOf(Hi(n)) \o padStart(HexOf(Lo(n)), 4, ZeroChar)

\* n.toString(16): a negative number is a minus sign and the digits of -n.
toString16(n) ==
  IF IsNegative(n) THEN MinusChar \o HexOfPair(Negate(n)) ELSE HexOfPair(n)

\* ------------------------------------------------------------ STEPS
\* A HashState is [str, val, salt, hexStr].  A step's run(state) mutates the
\* state and returns {desc, val}; here it yields [st |-> the state after,
\* out |-> [val |-> the returned val]] (desc is display text).

RECURSIVE SumCodes(_)
\* let v = 0; for (const c of str) v += c.charCodeAt(0)
SumCodes(chars) ==
  IF chars = <<>> THEN 0 ELSE charCodeAt0(Head(chars)) + SumCodes(Tail(chars))

charcode_sum(state) ==
  LET v  == SumCodes(Chars(state.str))
      nv == AddU32(state.val, Num(v))
  IN  [st |-> [state EXCEPT !.val = nv], out |-> [val |-> nv]]

\* M of polynomial_roll.
MPoly == 1000000007

RECURSIVE PolyLoop(_, _, _)
\* The loop of polynomial_roll from h and p over the remaining chars.
PolyLoop(chars, h, p) ==
  IF chars = <<>> THEN h
  ELSE LET h2 == AddMod(h, MulMod(p, charCodeAt0(Head(chars)), MPoly), MPoly)
           p2 == MulMod(p, 31, MPoly)
       IN  IF Computed(h2) /\ Computed(p2) THEN PolyLoop(Tail(chars), h2, p2) ELSE h

polynomial_roll(state) ==
  LET h  == PolyLoop(Chars(state.str), 0, 1)
      nv == ToUint32(Num(h))
  IN  [st |-> [state EXCEPT !.val = nv], out |-> [val |-> nv]]

RECURSIVE XorLoop(_, _)
\* for (const c of state.str) state.val ^= c.charCodeAt(0)
XorLoop(chars, val) ==
  IF chars = <<>> THEN val
  ELSE LET v2 == Xor(val, Num(charCodeAt0(Head(chars))))
       IN  IF Computed(v2) THEN XorLoop(Tail(chars), v2) ELSE val

\* xor_fold without the closing >>> 0: the XOR result stays a signed int32.
xor_foldSigned(state) ==
  LET nv == XorLoop(Chars(state.str), state.val)
  IN  [st |-> [state EXCEPT !.val = nv], out |-> [val |-> nv]]

xor_fold(state) ==
  LET nv == ToUint32(XorLoop(Chars(state.str), state.val))
  IN  [st |-> [state EXCEPT !.val = nv], out |-> [val |-> nv]]

\* e of modular_exp.
ExpE == 65537

RECURSIVE PowLoop(_, _, _)
\* while (exp > 0n) { if (exp % 2n === 1n) result = (result * base) % M;
\*                    base = (base * base) % M; exp >>= 1n }
PowLoop(result, base, exp) ==
  IF exp = 0 THEN result
  ELSE LET r == IF exp % 2 = 1 THEN MulMod(result, base, M31) ELSE result
           b == MulMod(base, base, M31)
       IN  IF Computed(r) /\ Computed(b) THEN PowLoop(r, b, exp \div 2) ELSE result

\* let base = BigInt(state.val || 1) % M; if (base === 0n) base = 1n
\* The base of modular_exp without the line "if (base === 0n) base = 1n".
ModExpBaseUnchecked(val) == BigMod31(IF val = <<0, 0>> THEN <<0, 1>> ELSE val)

ModExpBase(val) ==
  LET b == BigMod31(IF val = <<0, 0>> THEN <<0, 1>> ELSE val)
  IN  IF b = 0 THEN 1 ELSE b

modular_exp(state) ==
  LET result == PowLoop(1, ModExpBase(state.val), ExpE)
      nv == ToUint32(Num(result))
  IN  [st |-> [state EXCEPT !.val = nv], out |-> [val |-> nv]]

\* 2654435769 = 0x9e3779b9
KNUTH == <<40503, 31161>>

fibonacci_mix(state) ==
  LET nv == ToUint32(MulLow32(state.val, KNUTH))
  IN  [st |-> [state EXCEPT !.val = nv], out |-> [val |-> nv]]

\* 1000000007 = 0x3b9aca07
PRIME == <<15258, 51719>>

prime_multiply(state) ==
  LET nv == ToUint32(MulLow32(state.val, PRIME))
  IN  [st |-> [state EXCEPT !.val = nv], out |-> [val |-> nv]]

bit_rotate(state) ==
  LET h  == ToUint32(state.val)
      nv == ToUint32(Or(Shl(h, 13), Ushr(h, 19)))
  IN  [st |-> [state EXCEPT !.val = nv], out |-> [val |-> nv]]

RECURSIVE SquareLoop(_, _)
\* v = (v + code * code) % 2^32 over the chars (BigInt).
SquareLoop(chars, v) ==
  IF chars = <<>> THEN v
  ELSE LET code == charCodeAt0(Head(chars))
           v2   == AddU32(v, Mul16(code, code))
       IN  IF Computed(v2) THEN SquareLoop(Tail(chars), v2) ELSE v

ascii_square(state) ==
  LET v  == SquareLoop(Chars(state.str), <<0, 0>>)
      nv == AddU32(state.val, v)
  IN  [st |-> [state EXCEPT !.val = nv], out |-> [val |-> nv]]

\* 0x85ebca6b and 0xc2b2ae35
MIX1 == <<34283, 51819>>
MIX2 == <<49842, 44597>>

avalanche(state) ==
  LET h0 == ToUint32(state.val)
      h1 == Xor(h0, Ushr(h0, 16))
      h2 == ToUint32(Imul(h1, MIX1))
      h3 == Xor(h2, Ushr(h2, 13))
      h4 == ToUint32(Imul(h3, MIX2))
      h5 == Xor(h4, Ushr(h4, 16))
      nv == ToUint32(h5)
  IN  [st |-> [state EXCEPT !.val = nv], out |-> [val |-> nv]]

RECURSIVE SaltLoop(_, _, _)
\* for (const c of salt) { sv = (sv + c.charCodeAt(0) * p) >>> 0;
\*                         p = Math.imul(p, 31) >>> 0 }
SaltLoop(chars, sv, p) ==
  IF chars = <<>> THEN sv
  ELSE LET sv2 == AddU32(sv, MulLow32(Num(charCodeAt0(Head(chars))), p))
           p2  == ToUint32(Imul(p, <<0, 31>>))
       IN  IF Computed(sv2) /\ Computed(p2) THEN SaltLoop(Tail(chars), sv2, p2) ELSE sv

\* The salt of salt_inject without the "|| 'x'" fallback.
SaltAsIs(salt) == salt

\* const salt = state.salt || 'x'  ('x' is code unit 120)
SaltOrX(salt) == IF salt = <<>> THEN <<120>> ELSE salt

salt_inject(state) ==
  LET sv == SaltLoop(Chars(SaltOrX(state.salt)), <<0, 0>>, <<0, 1>>)
      nv == ToUint32(Xor(state.val, sv))
  IN  [st |-> [state EXCEPT !.val = nv], out |-> [val |-> nv]]

\* One iteration of the loop of rounds with h >> 16 for the first h >>> 16:
\* the shift copies the sign bit of the signed h.
RoundBodySignedShift(h) ==
  LET s  == Hi(ToInt32(h))
      h1 == Xor(h, <<IF s < 0 THEN -1 ELSE 0, s % B16>>)
      h2 == ToUint32(Imul(h1, MIX1))
      h3 == Xor(h2, Ushr(h2, 13))
      h4 == ToUint32(Imul(h3, MIX2))
  IN  Xor(h4, Ushr(h4, 16))

\* One iteration of the loop of rounds: h stays signed between iterations.
RoundBody(h) ==
  LET h1 == Xor(h, Ushr(h, 16))
      h2 == ToUint32(Imul(h1, MIX1))
      h3 == Xor(h2, Ushr(h2, 13))
      h4 == ToUint32(Imul(h3, MIX2))
  IN  Xor(h4, Ushr(h4, 16))

RECURSIVE RoundLoop(_, _)
RoundLoop(h, i) ==
  IF i = 0 THEN h
  ELSE LET n == RoundBody(h)
       IN  IF Computed(n) THEN RoundLoop(n, i - 1) ELSE h

\* for (let i = 0; i < 8; i++)
NRounds == 8

rounds(state) ==
  LET nv == ToUint32(RoundLoop(state.val, NRounds))
  IN  [st |-> [state EXCEPT !.val = nv], out |-> [val |-> nv]]

\* hex_encode without padStart(8, '0').
hex_encodeUnpadded(state) ==
  LET hex == toString16(state.val)
  IN  [st |-> [state EXCEPT !.hexStr = state.hexStr \o hex],
       out |-> [val |-> state.val]]

hex_encode(state) ==
  LET hex == padStart(toString16(state.val), 8, ZeroChar)
  IN  [st |-> [state EXCEPT !.hexStr = state.hexStr \o hex],
       out |-> [val |-> state.val]]

\* state.val % 65536: the remainder takes the sign of state.val.
modulo_trim(state) ==
  LET nv == IF IsNegative(state.val)
            THEN LET r == Lo(Negate(state.val))
                 IN  IF r = 0 THEN <<0, 0>> ELSE <<-1, B16 - r>>
            ELSE <<0, Lo(state.val)>>
  IN  [st |-> [state EXCEPT !.val = nv], out |-> [val |-> nv]]

\* The keys of STEPS.
StepKeys ==
  {"charcode_sum", "polynomial_roll", "xor_fold", "modular_exp", "fibonacci_mix",
   "prime_multiply", "bit_rotate", "ascii_square", "avalanche", "salt_inject",
   "rounds", "hex_encode", "modulo_trim"}

\* STEPS[key].run(state) for a key of STEPS.
StepRun(key, state) ==
  CASE key = "charcode_sum"    -> charcode_sum(state)
    [] key = "polynomial_roll" -> polynomial_roll(state)
    [] key = "xor_fold"        -> xor_fold(state)
    [] key = "modular_exp"     -> modular_exp(state)
    [] key = "fibonacci_mix"   -> fibonacci_mix(state)
    [] key = "prime_multiply"  -> prime_multiply(state)
    [] key = "bit_rotate"      -> bit_rotate(state)
    [] key = "ascii_square"    -> ascii_square(state)
    [] key = "avalanche"       -> avalanche(state)
    [] key = "salt_inject"     -> salt_inject(state)
    [] key = "rounds"          -> rounds(state)
    [] key = "hex_encode"      -> hex_encode(state)
    [] key = "modulo_trim"     -> modulo_trim(state)

\* ------------------------------------------------------------ runHash

\* 2166136261 = 0x811c9dc5
FNV == <<33052, 40389>>

\* state.val = (password.length * 2166136261) >>> 0
Seed(password) == ToUint32(MulLow32(Num(Len(password)), FNV))

\* The state of runHash once seeded.
NewState(password, salt) ==
  [str |-> password \o salt, val |-> Seed(password), salt |-> salt, hexStr |-> <<>>]

\* The final output of runHash: state.hexStr when it is not empty, else two
\* words, h1.toString(16) and h2.toString(16), each padded to 8.
FinalHash(state) ==
  IF state.hexStr # <<>> THEN state.hexStr
  ELSE LET h1 == state.val
           a  == ToUint32(Imul(Xor(h1, Ushr(h1, 16)), MIX1))
           b  == ToUint32(Imul(Xor(a, Ushr(a, 13)), MIX2))
           h2 == Xor(b, Ushr(b, 16))
       IN  padStart(toString16(h1), 8, ZeroChar) \o padStart(toString16(h2), 8, ZeroChar)

RECURSIVE MapSteps(_, _)
\* steps.map(...) from the run so far: a key STEPS lacks makes step undefined
\* and step.run(state) throws a TypeError, which ends the map.
MapSteps(rest, run) ==
  IF run.error # "" \/ rest = <<>> THEN run
  ELSE IF Head(rest) \notin StepKeys THEN [run EXCEPT !.error = "TypeError"]
  ELSE CHOOSE done \in
         { MapSteps(Tail(rest), next) : next \in
             { [run EXCEPT !.state = r.st,
                           !.trace = Append(@, [step |-> Head(rest), val |-> r.out.val]),
                           !.stepOutputs = Append(@, r.out)] :
               r \in {StepRun(Head(rest), run.state)} } } : TRUE

\* runHash(password, salt, steps) as one call: [error |-> "TypeError"] when it
\* throws, else the returned object (error |-> "").
runHash(password, salt, steps) ==
  CHOOSE ret \in
    { IF run.error # "" THEN [error |-> run.error]
      ELSE [error |-> "", finalHash |-> FinalHash(run.state), trace |-> run.trace,
            stepOutputs |-> run.stepOutputs, stateVal |-> run.state.val] :
      run \in { MapSteps(steps, [error |-> "", state |-> NewState(password, salt),
                                 trace |-> <<>>, stepOutputs |-> <<>>]) } } : TRUE

\* ------------------------------------------------------------ runAvalanche

\* flipChar(str, idx): <<>> stands for the TypeError of arr[idx] undefined;
\* otherwise <<the new string>>.
flipChar(str, idx) ==
  LET arr == Chars(str)
  IN  IF idx < 0 \/ idx >= Len(arr) THEN <<>>
      ELSE <<Join([arr EXCEPT ![idx + 1] = <<(charCodeAt0(arr[idx + 1]) + 1) % B16>>])>>

RECURSIVE DiffUpTo(_, _, _)
\* for (let i = 0; i < len; i++) if (a[i] !== b[i]) diff++
DiffUpTo(a, b, len) ==
  IF len = 0 THEN 0
  ELSE (IF a[len] # b[len] THEN 1 ELSE 0) + DiffUpTo(a, b, len - 1)

Min(x, y) == IF x < y THEN x ELSE y
Abs(x) == IF x < 0 THEN -x ELSE x

countDifferentChars(a, b) ==
  DiffUpTo(a, b, Min(Len(a), Len(b))) + Abs(Len(a) - Len(b))

\* Math.round((diff / baseLen) * 100): halves round up.  The double quotient is
\* exact enough for every baseLen under 40.
RoundPct(diff, baseLen) == ((200 * diff) + baseLen) \div (2 * baseLen)

AvLabels == <<"Original", "Flip 1st char", "Flip mid char", "Flip last char">>

\* runAvalanche(password, salt, steps): [error |-> "TypeError"] when it throws,
\* else the rows appended to the grid.
runAvalanche(password, salt, steps) ==
  LET flips == <<<<password>>,
                 flipChar(password, 0),
                 flipChar(password, Len(password) \div 2),
                 flipChar(password, Len(password) - 1)>>
      Row(base, k) ==
        CHOOSE row \in
          { [label |-> AvLabels[k], pw |-> flips[k][1], hash |-> h,
             pct |-> RoundPct(countDifferentChars(base.finalHash, h), Len(base.finalHash))] :
            h \in {runHash(flips[k][1], salt, steps).finalHash} } : TRUE
  IN  CHOOSE ret \in
        { IF base.error # "" THEN [error |-> base.error]
          ELSE IF \E k \in 1..4 : flips[k] = <<>> THEN [error |-> "TypeError"]
          ELSE [error |-> "", rows |-> [k \in 1..4 |-> Row(base, k)]] :
          base \in {runHash(password, salt, steps)} } : TRUE

\* ------------------------------------------------------------ inputs

\* The longest pipeline tried.
MaxPipe == 2

\* A step id STEPS lacks.
UnknownKey == "not_a_real_step"

Keys == StepKeys \cup {UnknownKey}

\* PRESETS
PRESETS ==
  [simple |-> <<"charcode_sum", "xor_fold", "hex_encode">>,
   djb2   |-> <<"charcode_sum", "polynomial_roll", "prime_multiply", "hex_encode">>,
   secure |-> <<"salt_inject", "polynomial_roll", "avalanche", "modular_exp",
                "fibonacci_mix", "rounds", "avalanche", "hex_encode">>]

\* Longer pipelines with hex_encode steps among other steps.
HexPipelines ==
  { <<"hex_encode", "avalanche", "hex_encode">>,
    <<"xor_fold", "hex_encode", "hex_encode", "rounds", "hex_encode">>,
    <<"hex_encode", "bit_rotate", UnknownKey, "hex_encode">> }

\* Eight avalanche steps in a row, alone and after a prefix.
EightAvalanches == [k \in 1..8 |-> "avalanche"]

RoundsPipelines ==
  { EightAvalanches,
    <<"charcode_sum">> \o EightAvalanches,
    <<"salt_inject", "polynomial_roll">> \o EightAvalanches,
    <<"xor_fold", "bit_rotate", "rounds">> }

\* The pipelines tried: every pipeline of at most MaxPipe keys, the presets,
\* HexPipelines and RoundsPipelines.
Pipelines ==
  UNION {[1..n -> Keys] : n \in 0..MaxPipe}
    \cup {PRESETS[k] : k \in DOMAIN PRESETS} \cup HexPipelines \cup RoundsPipelines

\* "\u0001\u000c\u001e\u0009\u0915" and "\u0002\u0018\u001d\u0013\u122a": salts
\* whose polynomial hash is 2^31 - 1 and 2 * (2^31 - 1).
SaltM  == <<1, 12, 30, 9, 2325>>
Salt2M == <<2, 24, 29, 19, 4650>>

\* U+1F600 as its surrogate pair.
Astral == <<55357, 56832>>

\* The (password, salt) pairs tried: "", "a", "ab" (97, 98), "s" (115), "p" (112).
Inputs ==
  { <<<<>>, <<>>>>,
    <<<<97>>, <<>>>>,
    <<<<97, 98>>, <<115>>>>,
    <<Astral, <<>>>>,
    <<<<>>, SaltM>>,
    <<<<>>, Salt2M>>,
    <<<<112>>, Astral>> }

\* ------------------------------------------------------------ the machine

VARIABLES
  pc,           \* "idle", "map" (inside steps.map), "returned", "threw",
                \* "reported" (runAvalanche ended), "alerted"
  password,     \* the arguments of the call
  salt,
  steps,
  state,        \* runHash's state object
  trace,        \* runHash's trace array
  stepOutputs,  \* the results steps.map has collected
  result,       \* <<the object runHash returned>>, or <<>>
  error,        \* the error thrown, or ""
  grid          \* the rows runAvalanche appended

vars == <<pc, password, salt, steps, state, trace, stepOutputs, result, error, grid>>

NoState == [str |-> <<>>, val |-> <<0, 0>>, salt |-> <<>>, hexStr |-> <<>>]

Init ==
  /\ pc = "idle"
  /\ password = <<>> /\ salt = <<>> /\ steps = <<>>
  /\ state = NoState
  /\ trace = <<>> /\ stepOutputs = <<>>
  /\ result = <<>> /\ error = "" /\ grid = <<>>

\* runHash is called: the state object is built and seeded.
Call(p, s, st) ==
  /\ pc = "idle"
  /\ pc' = "map"
  /\ password' = p /\ salt' = s /\ steps' = st
  /\ state' = NewState(p, s)
  /\ UNCHANGED <<trace, stepOutputs, result, error, grid>>

\* A steps.map callback that passes over a key STEPS lacks (if (!step) return)
\* instead of throwing.
MapStepSkipsUnknown ==
  /\ pc = "map"
  /\ Len(stepOutputs) < Len(steps)
  /\ LET key == steps[Len(stepOutputs) + 1]
     IN  IF key \notin StepKeys
         THEN /\ stepOutputs' = Append(stepOutputs, [val |-> state.val])
              /\ trace' = Append(trace, [step |-> key, val |-> state.val])
              /\ UNCHANGED <<state, pc, error>>
         ELSE \E r \in {StepRun(key, state)} :
                  /\ state' = r.st
                  /\ trace' = Append(trace, [step |-> key, val |-> r.out.val])
                  /\ stepOutputs' = Append(stepOutputs, r.out)
                  /\ UNCHANGED <<pc, error>>
  /\ UNCHANGED <<password, salt, steps, result, grid>>

\* One callback of steps.map: the next step is looked up and run.
MapStep ==
  /\ pc = "map"
  /\ Len(stepOutputs) < Len(steps)
  /\ LET key == steps[Len(stepOutputs) + 1]
     IN  IF key \notin StepKeys
         THEN /\ pc' = "threw"
              /\ error' = "TypeError"
              /\ UNCHANGED <<state, trace, stepOutputs>>
         ELSE \E r \in {StepRun(key, state)} :
                  /\ state' = r.st
                  /\ trace' = Append(trace, [step |-> key, val |-> r.out.val])
                  /\ stepOutputs' = Append(stepOutputs, r.out)
                  /\ UNCHANGED <<pc, error>>
  /\ UNCHANGED <<password, salt, steps, result, grid>>

\* The map is over: the final hash is built and the object returned.
Return ==
  /\ pc = "map"
  /\ Len(stepOutputs) = Len(steps)
  /\ pc' = "returned"
  /\ result' = <<[finalHash |-> FinalHash(state), trace |-> trace,
                  stepOutputs |-> stepOutputs, stateVal |-> state.val]>>
  /\ UNCHANGED <<password, salt, steps, state, trace, stepOutputs, error, grid>>

\* Some caller calls runHash.
CallRunHash ==
  /\ pc = "idle"
  /\ \E in \in Inputs, st \in Pipelines : Call(in[1], in[2], st)

Next ==
  \/ CallRunHash
  \/ MapStep
  \/ Return

Spec == Init /\ [][Next]_vars

\* runAvalanche is called and runs to its end.
Avalanche(p, s, st) ==
  /\ pc = "idle"
  /\ password' = p /\ salt' = s /\ steps' = st
  /\ LET r == runAvalanche(p, s, st)
     IN  IF r.error # ""
         THEN pc' = "threw" /\ error' = r.error /\ grid' = <<>>
         ELSE pc' = "reported" /\ error' = "" /\ grid' = r.rows
  /\ UNCHANGED <<state, trace, stepOutputs, result>>

\* Some caller calls runAvalanche.
CallRunAvalanche ==
  /\ pc = "idle"
  /\ \E in \in Inputs, st \in Pipelines : Avalanche(in[1], in[2], st)

\* "password", the value the click handler takes for an empty password field.
DefaultPassword == <<112, 97, 115, 115, 119, 111, 114, 100>>

\* The click handler of btn-run, for the pipeline the page holds and the values
\* of the two input fields: an empty pipeline ends in the alert; otherwise
\* runHash and then runAvalanche are called.
BtnRunClick(value, saltValue, pipeline) ==
  /\ pc = "idle"
  /\ IF pipeline = <<>>
     THEN /\ pc' = "alerted"
          /\ UNCHANGED <<password, salt, steps, result, error, grid>>
     ELSE \E p \in {IF value = <<>> THEN DefaultPassword ELSE value} :
          \E h \in {runHash(p, saltValue, pipeline)} :
            /\ password' = p /\ salt' = saltValue /\ steps' = pipeline
            /\ IF h.error # ""
               THEN pc' = "threw" /\ error' = h.error /\ result' = <<>> /\ grid' = <<>>
               ELSE /\ result' = <<[finalHash |-> h.finalHash, trace |-> h.trace,
                                   stepOutputs |-> h.stepOutputs, stateVal |-> h.stateVal]>>
                    /\ \E r \in {runAvalanche(p, saltValue, pipeline)} :
                         IF r.error # ""
                         THEN pc' = "threw" /\ error' = r.error /\ grid' = <<>>
                         ELSE pc' = "reported" /\ error' = "" /\ grid' = r.rows
  /\ UNCHANGED <<state, trace, stepOutputs>>

\* The user clicks btn-run.
ClickRun ==
  /\ pc = "idle"
  /\ \E in \in Inputs, st \in Pipelines : BtnRunClick(in[1], in[2], st)

NextAvalanche ==
  \/ CallRunAvalanche
  \/ ClickRun

SpecAvalanche == Init /\ [][NextAvalanche]_vars

\* ------------------------------------------------------------ properties

\* Every step of the call is a key of STEPS.
CatalogSteps == \A i \in 1..Len(steps) : steps[i] \in StepKeys

\* The accumulator the i-th step of the call started from.
AccBefore(i) == IF i = 1 THEN Seed(password) ELSE trace[i - 1].val

\* The k-th of the 8 hex digits of the unsigned 32-bit v, as a character.
HexDigit(d) == IF d < 10 THEN 48 + d ELSE 87 + d
Nibble(v, k) ==
  IF k <= 4 THEN (Hi(v) \div (16 ^ (4 - k))) % 16 ELSE (Lo(v) \div (16 ^ (8 - k))) % 16
Hex8(v) == [k \in 1..8 |-> HexDigit(Nibble(v, k))]
IsHexDigit(c) == c \in (48..57) \cup (97..102)

\* The hex_encode steps among the first n steps.
HexSteps(n) == {i \in 1..n : steps[i] = "hex_encode"}

RECURSIVE HexConcat(_)
\* The 8-digit words of the accumulator at the hex_encode steps among the
\* first n steps, in order.
HexConcat(n) ==
  IF n = 0 THEN <<>>
  ELSE HexConcat(n - 1) \o (IF steps[n] = "hex_encode" THEN Hex8(AccBefore(n)) ELSE <<>>)

\* C1: runHash called with a pipeline of zero steps fails and returns no
\* result: no call with an empty pipeline ever reaches the return statement.
C1_EmptyPipelineRejected ==
  (pc # "idle" /\ steps = <<>>) => (pc # "returned" /\ result = <<>>)

\* C2: a call of runHash whose pipeline holds a key STEPS lacks returns no
\* result: it runs the steps before the first such key and then throws, the
\* error reaching the caller; a call that returned had only catalog steps.
C2_UnknownStepThrows ==
  (pc \in {"map", "threw", "returned"} /\ ~CatalogSteps) =>
    /\ result = <<>>
    /\ pc # "returned"
    /\ \A i \in 1..Len(stepOutputs) : steps[i] \in StepKeys
    /\ pc = "threw" => /\ error = "TypeError"
                       /\ Len(stepOutputs) < Len(steps)
                       /\ steps[Len(stepOutputs) + 1] \notin StepKeys

C2_Witness ==
  /\ pc = "threw" /\ error = "TypeError" /\ result = <<>>
  /\ Len(stepOutputs) >= 2
  /\ steps[Len(steps)] \in StepKeys

\* C3: for a non-empty pipeline of catalog steps without hex_encode, finalHash
\* is exactly 16 lowercase hex digits: the 8-digit hex of the final accumulator
\* followed by the 8-digit hex of avalanche applied once to it.
C3_SixteenHexDigits ==
  (pc = "returned" /\ steps # <<>> /\ CatalogSteps /\ HexSteps(Len(steps)) = {}) =>
    /\ Len(result[1].finalHash) = 16
    /\ \A k \in 1..Len(result[1].finalHash) : IsHexDigit(result[1].finalHash[k])
    /\ result[1].finalHash = Hex8(state.val) \o Hex8(avalanche(state).out.val)

\* C4: with N >= 1 hex_encode steps in a pipeline of catalog steps, finalHash
\* has 8 * N characters and is the in-order concatenation of the zero-padded
\* 8-digit lowercase hex of the accumulator at each hex_encode step, and each
\* hex_encode leaves the accumulator unchanged; during the map state.hexStr is
\* that concatenation for the steps run so far.
C4_HexEncodeConcatenates ==
  /\ (pc \in {"map", "returned"}) =>
       /\ state.hexStr = HexConcat(Len(trace))
       /\ Len(state.hexStr) = 8 * Cardinality(HexSteps(Len(trace)))
       /\ \A k \in 1..Len(state.hexStr) : IsHexDigit(state.hexStr[k])
       /\ \A i \in HexSteps(Len(trace)) : trace[i].val = AccBefore(i)
  /\ (pc = "returned" /\ HexSteps(Len(steps)) # {}) =>
       /\ result[1].finalHash = HexConcat(Len(steps))
       /\ Len(result[1].finalHash) = 8 * Cardinality(HexSteps(Len(steps)))

C4_Witness ==
  /\ pc = "returned"
  /\ Cardinality(HexSteps(Len(steps))) = 3
  /\ \E i \in 2..(Len(steps) - 1) : steps[i] = "rounds" /\ trace[i].val # AccBefore(i)
  /\ Len(result[1].finalHash) = 24

\* The positions up to the shorter length where a and b differ, plus the
\* difference of their lengths.
Differing(a, b) ==
  Cardinality({i \in 1..Min(Len(a), Len(b)) : a[i] # b[i]}) + Abs(Len(a) - Len(b))

\* pct is 100 * diff / baseLen rounded to the nearest integer, halves up.
IsRounded(pct, diff, baseLen) ==
  /\ (2 * pct * baseLen) <= (200 * diff) + baseLen
  /\ (200 * diff) + baseLen < 2 * (pct + 1) * baseLen

\* C5: for a non-empty pipeline of catalog steps, each of the four rows of
\* runAvalanche has a percentage that is an integer in 0..100 and equals
\* round(100 * (differing positions + length difference) / base.length).
C5_DiffPercentInRange ==
  (pc = "reported" /\ steps # <<>> /\ CatalogSteps) =>
    \A k \in 1..Len(grid) :
      /\ grid[k].pct \in 0..100
      /\ IsRounded(grid[k].pct, Differing(grid[1].hash, grid[k].hash), Len(grid[1].hash))

\* C6: for a password of at most one character and a non-empty pipeline of
\* catalog steps, runAvalanche ends without error with all four rows, the
\* "flip first" and "flip last" rows having the same password and hash.
C6_ShortPasswordFourRows ==
  (pc # "idle" /\ Len(Chars(password)) <= 1 /\ steps # <<>> /\ CatalogSteps) =>
    /\ pc = "reported" /\ error = ""
    /\ Len(grid) = 4
    /\ grid[2].pw = grid[4].pw /\ grid[2].hash = grid[4].hash

\* (len * 2166136261) mod 2^32, 2166136261 being 33052 * 2^16 + 40389.
SeedOf(len) ==
  LET lo == len * 40389
      hi == (len * 33052) + (lo \div B16)
  IN  <<hi % B16, lo % B16>>

\* C7: after seeding with (password.length * 2166136261) mod 2^32 and after
\* each step of a pipeline of catalog steps, state.val is an integer in
\* 0 .. 2^32 - 1, every value in the trace is one, and the value the trace
\* records for the last step run is state.val.
C7_AccumulatorIsUint32 ==
  (pc \in {"map", "returned"}) =>
    /\ IsUint32(state.val)
    /\ \A i \in 1..Len(trace) : IsUint32(trace[i].val)
    /\ Len(trace) = Len(stepOutputs)
    /\ \A i \in 1..Len(trace) : trace[i].val = stepOutputs[i].val
    /\ state.val = IF trace = <<>> THEN SeedOf(Len(password)) ELSE trace[Len(trace)].val

C7_Witness ==
  /\ pc = "map"
  /\ Len(trace) >= 2
  /\ trace[1].step # trace[2].step
  /\ Hi(trace[1].val) >= 32768 /\ Hi(state.val) >= 32768
  /\ state.val # trace[1].val

\* The code point of a character: of a surrogate pair, 0x10000 + the two
\* 10-bit halves.
CodePoint(c) ==
  IF Len(c) = 2 THEN 65536 + ((c[1] - 55296) * 1024) + (c[2] - 56320) ELSE c[1]

RECURSIVE SumCodePoints(_)
SumCodePoints(chars) ==
  IF chars = <<>> THEN 0 ELSE CodePoint(Head(chars)) + SumCodePoints(Tail(chars))

\* C8: charcode_sum sets the accumulator to (accumulator + the sum of the
\* Unicode code points of the input text) mod 2^32, a character above 0xFFFF
\* counting with its full code point.
C8_CharcodeSumOfCodePoints ==
  \A i \in 1..Len(trace) :
    trace[i].step = "charcode_sum" =>
      trace[i].val = AddU32(AccBefore(i), Num(SumCodePoints(Chars(password \o salt))))

\* v mod 2^31 - 1 for an unsigned 32-bit v.
AccMod31(v) ==
  LET r == ((Hi(v) % 32768) * B16) + Lo(v)
  IN  IF Hi(v) < 32768 THEN (IF r = M31 THEN 0 ELSE r)
      ELSE IF r >= M31 - 1 THEN r - (M31 - 1) ELSE r + 1

RECURSIVE SquareTimes(_, _)
\* b squared n times, mod 2^31 - 1.
SquareTimes(b, n) ==
  IF n = 0 THEN b
  ELSE LET b2 == MulMod(b, b, M31)
       IN  IF Computed(b2) THEN SquareTimes(b2, n - 1) ELSE b

\* b^65537 mod 2^31 - 1, as b^(2^16) * b.
Pow65537(b) == MulMod(SquareTimes(b, 16), b, M31)

\* C9 as stated: modular_exp sets the accumulator to base^65537 mod 2^31 - 1,
\* base being the incoming accumulator, replaced by 1 only when it is 0.
C9_TruePowerUnlessZero ==
  \A i \in 1..Len(trace) :
    trace[i].step = "modular_exp" =>
      trace[i].val = Num(Pow65537(IF AccBefore(i) = <<0, 0>> THEN 1
                                  ELSE AccMod31(AccBefore(i))))

\* C9, amended: modular_exp sets the accumulator to base^65537 mod 2^31 - 1,
\* base being the incoming accumulator reduced mod 2^31 - 1 and replaced by 1
\* when that residue is 0 (accumulator 0, 2147483647 or 4294967294), where the
\* result is 1.
C9_BaseOneOnZeroResidue ==
  \A i \in 1..Len(trace) :
    trace[i].step = "modular_exp" =>
      /\ trace[i].val = Num(Pow65537(IF AccMod31(AccBefore(i)) = 0 THEN 1
                                     ELSE AccMod31(AccBefore(i))))
      /\ AccBefore(i) \in {<<0, 0>>, <<32767, 65535>>, <<65535, 65534>>} =>
           trace[i].val = <<0, 1>>

C9_Witness ==
  \E i \in 2..Len(trace) :
    /\ trace[i].step = "modular_exp"
    /\ AccBefore(i) = <<32767, 65535>>
    /\ trace[i].val = <<0, 1>>

\* 31 * v mod 2^32.
Times31(v) ==
  LET lo == Lo(v) * 31
      hi == (Hi(v) * 31) + (lo \div B16)
  IN  <<hi % B16, lo % B16>>

RECURSIVE PolyHash31(_)
\* The sum of c_i * 31^i mod 2^32 over the characters c_0, c_1, ..., each read
\* by charCodeAt(0), by Horner's rule from the last character.
PolyHash31(chars) ==
  IF chars = <<>> THEN <<0, 0>>
  ELSE AddU32(Num(charCodeAt0(Head(chars))), Times31(PolyHash31(Tail(chars))))

\* C10 as stated: salt_inject sets the accumulator to accumulator XOR sv, sv
\* the polynomial hash of the salt, which is 0 for the empty salt.
C10_XorSaltHash ==
  \A i \in 1..Len(trace) :
    trace[i].step = "salt_inject" =>
      trace[i].val = ToUint32(Xor(AccBefore(i), PolyHash31(Chars(salt))))

\* C10, amended: salt_inject sets the accumulator to accumulator XOR sv, sv
\* the polynomial hash of the salt, or of "x" when the salt is empty: the
\* empty salt gives sv = 120, so the accumulator becomes accumulator XOR 120.
C10_XorSaltHashOrX ==
  \A i \in 1..Len(trace) :
    trace[i].step = "salt_inject" =>
      /\ salt # <<>> => trace[i].val = ToUint32(Xor(AccBefore(i), PolyHash31(Chars(salt))))
      /\ salt = <<>> => /\ trace[i].val = ToUint32(Xor(AccBefore(i), <<0, 120>>))
                        /\ trace[i].val # AccBefore(i)

C10_Witness ==
  /\ salt = <<>>
  /\ \E i \in 2..Len(trace) :
       /\ trace[i].step = "salt_inject"
       /\ trace[i].val = ToUint32(Xor(AccBefore(i), <<0, 120>>))
       /\ trace[i].val # AccBefore(i)

RECURSIVE AvalancheTimes(_, _)
\* The accumulator after n avalanche steps from the accumulator v.
AvalancheTimes(v, n) ==
  IF n = 0 THEN v
  ELSE LET w == avalanche([NoState EXCEPT !.val = v]).out.val
       IN  IF Computed(w) THEN AvalancheTimes(w, n - 1) ELSE v

\* The steps before the last one.
Front(st) == SubSeq(st, 1, Len(st) - 1)

\* The steps end with eight avalanche steps.
EndsWithEight(st) ==
  Len(st) >= 8 /\ SubSeq(st, Len(st) - 7, Len(st)) = EightAvalanches

\* C11: a rounds step yields the accumulator that eight consecutive avalanche
\* steps yield from the same accumulator; a call whose pipeline is a prefix
\* followed by rounds ends with the stateVal of the call with the same prefix
\* followed by eight avalanche steps, and the other way round.
C11_RoundsIsEightAvalanches ==
  /\ \A i \in 1..Len(trace) :
       trace[i].step = "rounds" => trace[i].val = AvalancheTimes(AccBefore(i), 8)
  /\ (pc = "returned" /\ steps # <<>> /\ steps[Len(steps)] = "rounds") =>
       result[1].stateVal =
         runHash(password, salt, Front(steps) \o EightAvalanches).stateVal
  /\ (pc = "returned" /\ EndsWithEight(steps)) =>
       result[1].stateVal =
         runHash(password, salt, SubSeq(steps, 1, Len(steps) - 8) \o <<"rounds">>).stateVal

\* A rounds step after a prefix whose first iteration leaves a negative h.
C11_Witness ==
  /\ pc = "returned"
  /\ Len(steps) >= 2 /\ steps[Len(steps)] = "rounds"
  /\ IsNegative(RoundBody(AccBefore(Len(steps))))
  /\ result[1].stateVal = AvalancheTimes(AccBefore(Len(steps)), 8)
  /\ result[1].stateVal # AccBefore(Len(steps))

=============================================================================
